---- MODULE Spec2Model ----
(***************************************************************************)
(* Order placement of ecommerce_fastapi (main.py, create_order) against a  *)
(* transactional store with row locks.                                      *)
(*                                                                          *)
(* The store is modelled as the committed tables (stock, orders,            *)
(* order_items) plus, per connection, the writes of its open transaction    *)
(* (tx_stock, tx_orders, tx_items) and the row locks it holds (lock_owner). *)
(* A transaction reads its own writes; every other connection reads the     *)
(* committed tables.  Money is counted in cents.                            *)
(***************************************************************************)
EXTENDS Integers, Sequences, FiniteSets, TLC

\* ---- bounds of the model -------------------------------------------------
MaxLines == 2       \* longest items list of a request
MaxQty == 2         \* largest quantity of a line
NumSuffix == 2      \* distinct values os.urandom(2) is drawn from here
MaxClock == 1       \* last second the wall clock reaches

\* the concurrent create_order requests, each on its own connection
Tx == {1, 2}
NoTx == 0

\* ---- the products table (rows exist for ids 1..3; id 4 has no row);
\* Price is the price each row starts with -----------------------------------
Products == {1, 2, 3}
ProductIds == Products \cup {4}
Price == [p \in Products |-> IF p = 1 THEN 1000 ELSE IF p = 2 THEN 250 ELSE 500]
IsDeleted == [p \in Products |-> p = 3]
InitStock == [p \in Products |-> IF p = 1 THEN 3 ELSE 1]

\* ---- request validation (pydantic, before the handler body runs) ----------
\* user_id: int = Field(..., gt=0)
ValidUser(user_id) == user_id > 0

ValidLineAllowsZero(line) == line.product_id > 0 /\ line.quantity >= 0

\* product_id: int = Field(..., gt=0); quantity: int = Field(..., gt=0)
ValidLine(line) == line.product_id > 0 /\ line.quantity > 0

\* items: List[OrderItemRequest] = Field(..., min_items=1)
Valid(r) ==
  /\ ValidUser(r.user_id)
  /\ Len(r.items) >= 1
  /\ \A i \in 1..Len(r.items) : ValidLine(r.items[i])

\* request t is made for buyer t
UserOf == [t \in Tx |-> t]
Users == {u \in {0} \cup Tx : ValidUser(u)}
AllLines == [product_id : {0} \cup ProductIds, quantity : 0..MaxQty]
Lines == {line \in AllLines : ValidLine(line)}

RECURSIVE SeqsUpTo(_, _)
SeqsUpTo(S, n) ==
  IF n = 0 THEN {<<>>}
  ELSE LET shorter == SeqsUpTo(S, n - 1)
       IN shorter \cup {Append(q, x) : q \in {w \in shorter : Len(w) = n - 1}, x \in S}

\* the bodies a client may post, valid or not; the fields are sampled at the
\* boundary of the validation (0 and 1)
RawLines == [product_id : {0, 1}, quantity : {0, 1}]
RawRequests == [user_id : {0, 1}, items : SeqsUpTo(RawLines, MaxLines)]

\* CreateOrderRequest: user_id > 0, 1..MaxLines items, product_id > 0 and
\* quantity > 0 in each.  create_order reads items[i] only in iteration i of its
\* loop, so req[t].items holds the lines the loop has reached so far: a line is
\* drawn when the loop reaches it, and the list may end after any line.

NoReq == [user_id |-> 0, items |-> <<>>]
NoLocal == [product_stock |-> 0, unit_price |-> 0, subtotal |-> 0]
NoNumber == [ts |-> -1, rnd |-> -1]

VARIABLES
  stock,          \* committed products.stock
  orders,         \* committed rows of orders
  order_items,    \* committed rows of order_items, in commit order
  next_order_id,  \* AUTO_INCREMENT of orders
  lock_owner,     \* holder of the exclusive row lock of each product row
  clock,          \* datetime.now(), in seconds
  price,          \* products.price
  pc,             \* position of each request in create_order
  req,            \* order_data
  order_id, order_number, total_amount, idx, local,
  reads,          \* product ids this request has issued a locking read for
  tx_orders, tx_items, tx_stock,   \* uncommitted writes of the connection
  result          \* what the request reported

vars == <<stock, orders, order_items, next_order_id, lock_owner, clock, price, pc, req,
          order_id, order_number, total_amount, idx, local, reads,
          tx_orders, tx_items, tx_stock, result>>

committed == <<stock, orders, order_items>>

Init ==
  /\ stock = InitStock
  /\ orders = {}
  /\ order_items = <<>>
  /\ next_order_id = 1
  /\ lock_owner = [p \in Products |-> NoTx]
  /\ clock = 0
  /\ price = Price
  /\ pc = [t \in Tx |-> "idle"]
  /\ req = [t \in Tx |-> NoReq]
  /\ order_id = [t \in Tx |-> 0]
  /\ order_number = [t \in Tx |-> NoNumber]
  /\ total_amount = [t \in Tx |-> 0]
  /\ idx = [t \in Tx |-> 0]
  /\ local = [t \in Tx |-> NoLocal]
  /\ reads = [t \in Tx |-> <<>>]
  /\ tx_orders = [t \in Tx |-> {}]
  /\ tx_items = [t \in Tx |-> <<>>]
  /\ tx_stock = [t \in Tx |-> <<>>]
  /\ result = [t \in Tx |-> "none"]

\* ---- the storage interface ----------------------------------------------

\* The value of products.stock a statement of connection t sees for row p:
\* its own uncommitted write, else the committed value.
TxViewCommitted(t, p) == stock[p]

TxView(t, p) == IF p \in DOMAIN tx_stock[t] THEN tx_stock[t][p] ELSE stock[p]

\* The rows of orders connection t sees: its own versions over the committed ones.
OrdersView(t) ==
  tx_orders[t] \cup {o \in orders : \A w \in tx_orders[t] : w.id # o.id}

LockAlwaysFree(t, p) == TRUE

\* An exclusive row lock is granted when the row is free or already held by t.
LockFree(t, p) == lock_owner[p] \in {NoTx, t}

Released(t) == [p \in Products |-> IF lock_owner[p] = t THEN NoTx ELSE lock_owner[p]]

\* db.commit(): the writes of t reach the committed tables, its locks go.
DbCommit(t) ==
  /\ stock' = [p \in Products |-> TxView(t, p)]
  /\ orders' = OrdersView(t)
  /\ order_items' = order_items \o tx_items[t]
  /\ tx_orders' = [tx_orders EXCEPT ![t] = {}]
  /\ tx_items' = [tx_items EXCEPT ![t] = <<>>]
  /\ tx_stock' = [tx_stock EXCEPT ![t] = <<>>]
  /\ lock_owner' = Released(t)

DbRollbackCommits(t) == DbCommit(t)

DbRollbackKeepsLocks(t) ==
  /\ UNCHANGED <<committed, lock_owner>>
  /\ tx_orders' = [tx_orders EXCEPT ![t] = {}]
  /\ tx_items' = [tx_items EXCEPT ![t] = <<>>]
  /\ tx_stock' = [tx_stock EXCEPT ![t] = <<>>]

\* db.rollback(): the writes of t are dropped, its locks go.
DbRollback(t) ==
  /\ UNCHANGED committed
  /\ tx_orders' = [tx_orders EXCEPT ![t] = {}]
  /\ tx_items' = [tx_items EXCEPT ![t] = <<>>]
  /\ tx_stock' = [tx_stock EXCEPT ![t] = <<>>]
  /\ lock_owner' = Released(t)

DbCloseLeaks(t) ==
  UNCHANGED <<committed, tx_orders, tx_items, tx_stock, lock_owner>>

\* get_db: db.close() in the finally; the server drops the open transaction
\* of a closed connection and releases its locks.
DbClose(t) ==
  /\ UNCHANGED committed
  /\ tx_orders' = [tx_orders EXCEPT ![t] = {}]
  /\ tx_items' = [tx_items EXCEPT ![t] = <<>>]
  /\ tx_stock' = [tx_stock EXCEPT ![t] = <<>>]
  /\ lock_owner' = Released(t)

\* ---- pure steps of create_order -----------------------------------------

\* f"ORD{now:%Y%m%d%H%M%S}{os.urandom(2).hex()}": the second and the suffix.
OrderNumber(now, rnd) == [ts |-> now, rnd |-> rnd]

\* The checks on the row returned by the locking read, in source order.
CheckProductStockFirst(found, is_deleted, product_stock, quantity) ==
  IF ~found THEN "ProductNotFound"
  ELSE IF product_stock < quantity THEN "InsufficientStock"
  ELSE IF is_deleted THEN "ProductUnavailable"
  ELSE "ok"

CheckProduct(found, is_deleted, product_stock, quantity) ==
  IF ~found THEN "ProductNotFound"
  ELSE IF is_deleted THEN "ProductUnavailable"
  ELSE IF product_stock < quantity THEN "InsufficientStock"
  ELSE "ok"

Subtotal(unit_price, quantity) == unit_price * quantity

AccumulateOverwrites(total, subtotal) == subtotal

\* total_amount += subtotal
Accumulate(total, subtotal) == total + subtotal

UpdateProductsSwapped(cur, quantity) ==
  IF cur >= quantity THEN [rowcount |-> 1, stock |-> quantity - cur]
  ELSE [rowcount |-> 0, stock |-> cur]

UpdateProductsByOne(cur, quantity) ==
  IF cur >= quantity THEN [rowcount |-> 1, stock |-> cur - 1]
  ELSE [rowcount |-> 0, stock |-> cur]

\* UPDATE products SET stock = stock - q WHERE id = p AND stock >= q
UpdateProducts(cur, quantity) ==
  IF cur >= quantity THEN [rowcount |-> 1, stock |-> cur - quantity]
  ELSE [rowcount |-> 0, stock |-> cur]

InProgress == {"insert_order", "select", "update", "insert_item", "update_total", "commit"}
Ended == {"done", "failed", "cancelled", "rejected"}

Item(t) == req[t].items[idx[t]]

txlocals == <<req, order_id, order_number, total_amount, idx, local, reads>>

\* except HTTPException / Error / Exception: db.rollback(), then the failure
\* is reported.
Raise(t, kind) ==
  /\ DbRollback(t)
  /\ pc' = [pc EXCEPT ![t] = "failed"]
  /\ result' = [result EXCEPT ![t] = kind]

\* ---- create_order, statement by statement -------------------------------

\* The body fails validation: FastAPI answers 422 and never calls create_order;
\* the connection get_db opened is closed without a transaction.
RejectInvalid(t) ==
  /\ pc[t] = "idle"
  /\ \E r \in RawRequests :
       /\ ~Valid(r)
       /\ req' = [req EXCEPT ![t] = r]
  /\ DbClose(t)
  /\ pc' = [pc EXCEPT ![t] = "rejected"]
  /\ result' = [result EXCEPT ![t] = "InvalidInput"]
  /\ UNCHANGED <<next_order_id, clock, price, order_id, order_number, total_amount, idx,
                 local, reads>>

\* db.start_transaction(); order_number and current_time are computed;
\* rnd is the value os.urandom(2) returns
StartTransaction(t, rnd) ==
  /\ pc[t] = "idle"
  /\ \E u \in Users :
       /\ u = UserOf[t]
       /\ req' = [req EXCEPT ![t] = [user_id |-> u, items |-> <<>>]]
  /\ order_number' = [order_number EXCEPT ![t] = OrderNumber(clock, rnd)]
  /\ pc' = [pc EXCEPT ![t] = "insert_order"]
  /\ UNCHANGED <<committed, next_order_id, lock_owner, clock, price, order_id, total_amount,
                 idx, local, reads, tx_orders, tx_items, tx_stock, result>>

InsertOrderAutocommit(t) ==
  /\ pc[t] = "insert_order"
  /\ next_order_id' = next_order_id + 1
  /\ orders' = orders \cup
       {[id |-> next_order_id, user_id |-> req[t].user_id,
         number |-> order_number[t], status |-> "pending", total_amount |-> 0]}
  /\ order_id' = [order_id EXCEPT ![t] = next_order_id]
  /\ total_amount' = [total_amount EXCEPT ![t] = 0]
  /\ \E line \in Lines : req' = [req EXCEPT ![t].items = <<line>>]
  /\ idx' = [idx EXCEPT ![t] = 1]
  /\ pc' = [pc EXCEPT ![t] = "select"]
  /\ UNCHANGED <<stock, order_items, lock_owner, clock, price, order_number, local,
                 reads, tx_orders, tx_items, tx_stock, result>>

\* INSERT INTO orders ...; order_id = cursor.lastrowid; if not order_id: raise
InsertOrder(t) ==
  /\ pc[t] = "insert_order"
  /\ next_order_id' = next_order_id + 1
  /\ \E lastrowid \in {next_order_id, 0} :
       IF lastrowid = 0
       THEN /\ Raise(t, "NoOrderId")
            /\ UNCHANGED <<clock, price, txlocals>>
       ELSE /\ tx_orders' = [tx_orders EXCEPT ![t] =
                 {[id |-> lastrowid, user_id |-> req[t].user_id,
                   number |-> order_number[t], status |-> "pending",
                   total_amount |-> 0]}]
            /\ order_id' = [order_id EXCEPT ![t] = lastrowid]
            /\ total_amount' = [total_amount EXCEPT ![t] = 0]
            /\ \E line \in Lines : req' = [req EXCEPT ![t].items = <<line>>]
            /\ idx' = [idx EXCEPT ![t] = 1]
            /\ pc' = [pc EXCEPT ![t] = "select"]
            /\ UNCHANGED <<committed, lock_owner, clock, price, order_number, local,
                           reads, tx_items, tx_stock, result>>

\* SELECT stock, price, is_deleted FROM products WHERE id = p FOR UPDATE,
\* the three checks, and unit_price, subtotal, total_amount
SelectForUpdate(t) ==
  /\ pc[t] = "select"
  /\ LET p == Item(t).product_id
         q == Item(t).quantity
         found == p \in Products
     IN /\ found => LockFree(t, p)
        /\ reads' = [reads EXCEPT ![t] = Append(@, p)]
        /\ LET product_stock == IF found THEN TxView(t, p) ELSE 0
               is_deleted == IF found THEN IsDeleted[p] ELSE FALSE
               outcome == CheckProduct(found, is_deleted, product_stock, q)
           IN IF outcome # "ok"
              THEN /\ Raise(t, outcome)
                   /\ local' = [local EXCEPT ![t] =
                        [product_stock |-> product_stock, unit_price |-> 0, subtotal |-> 0]]
                   /\ UNCHANGED <<next_order_id, clock, price, req, order_id, order_number,
                                  total_amount, idx>>
              ELSE /\ lock_owner' = [lock_owner EXCEPT ![p] = t]
                   /\ local' = [local EXCEPT ![t] =
                        [product_stock |-> product_stock, unit_price |-> price[p],
                         subtotal |-> Subtotal(price[p], q)]]
                   /\ total_amount' = [total_amount EXCEPT ![t] =
                        Accumulate(@, Subtotal(price[p], q))]
                   /\ pc' = [pc EXCEPT ![t] = "update"]
                   /\ UNCHANGED <<committed, next_order_id, clock, price, req, order_id,
                                  order_number, idx, tx_orders, tx_items, tx_stock, result>>

\* UPDATE products SET stock = stock - q ... AND stock >= q; rowcount == 0:
\* db.rollback() and raise
UpdateStock(t) ==
  /\ pc[t] = "update"
  /\ LET p == Item(t).product_id
         u == UpdateProducts(TxView(t, p), Item(t).quantity)
     IN /\ LockFree(t, p)
        /\ IF u.rowcount = 0
           THEN /\ Raise(t, "ConcurrentStockConflict")
                /\ UNCHANGED <<next_order_id, clock, price, txlocals>>
           ELSE /\ tx_stock' = [tx_stock EXCEPT ![t] = (p :> u.stock) @@ @]
                /\ lock_owner' = [lock_owner EXCEPT ![p] = t]
                /\ pc' = [pc EXCEPT ![t] = "insert_item"]
                /\ UNCHANGED <<committed, next_order_id, clock, price, txlocals, tx_orders,
                               tx_items, result>>

InsertItemKeepsLast(t) ==
  /\ pc[t] = "insert_item"
  /\ tx_items' = [tx_items EXCEPT ![t] =
       <<[order_id |-> order_id[t], product_id |-> Item(t).product_id,
          quantity |-> Item(t).quantity, unit_price |-> local[t].unit_price,
          subtotal |-> local[t].subtotal]>>]
  /\ \/ /\ idx[t] < MaxLines
        /\ \E line \in Lines : req' = [req EXCEPT ![t].items = Append(@, line)]
        /\ idx' = [idx EXCEPT ![t] = @ + 1]
        /\ pc' = [pc EXCEPT ![t] = "select"]
     \/ /\ UNCHANGED <<req, idx>>
        /\ pc' = [pc EXCEPT ![t] = "update_total"]
  /\ UNCHANGED <<committed, next_order_id, lock_owner, clock, price, order_id,
                 order_number, total_amount, local, reads, tx_orders, tx_stock, result>>

\* INSERT INTO order_items ...; next item of the loop
InsertItem(t) ==
  /\ pc[t] = "insert_item"
  /\ tx_items' = [tx_items EXCEPT ![t] = Append(@,
       [order_id |-> order_id[t], product_id |-> Item(t).product_id,
        quantity |-> Item(t).quantity, unit_price |-> local[t].unit_price,
        subtotal |-> local[t].subtotal])]
  /\ \/ /\ idx[t] < MaxLines
        /\ \E line \in Lines : req' = [req EXCEPT ![t].items = Append(@, line)]
        /\ idx' = [idx EXCEPT ![t] = @ + 1]
        /\ pc' = [pc EXCEPT ![t] = "select"]
     \/ /\ UNCHANGED <<req, idx>>
        /\ pc' = [pc EXCEPT ![t] = "update_total"]
  /\ UNCHANGED <<committed, next_order_id, lock_owner, clock, price, order_id,
                 order_number, total_amount, local, reads, tx_orders, tx_stock, result>>

\* UPDATE orders SET total_amount = %s WHERE id = %s
UpdateTotal(t) ==
  /\ pc[t] = "update_total"
  /\ tx_orders' = [tx_orders EXCEPT ![t] =
       {[o EXCEPT !.total_amount = total_amount[t]] :
          o \in {w \in OrdersView(t) : w.id = order_id[t]}}]
  /\ pc' = [pc EXCEPT ![t] = "commit"]
  /\ UNCHANGED <<committed, next_order_id, lock_owner, clock, price, txlocals, tx_items,
                 tx_stock, result>>

CommitSkipped(t) ==
  /\ pc[t] = "commit"
  /\ DbClose(t)
  /\ pc' = [pc EXCEPT ![t] = "done"]
  /\ result' = [result EXCEPT ![t] = "ok"]
  /\ UNCHANGED <<next_order_id, clock, price, txlocals>>

\* db.commit(); return {"order_id", "order_number"}
Commit(t) ==
  /\ pc[t] = "commit"
  /\ DbCommit(t)
  /\ pc' = [pc EXCEPT ![t] = "done"]
  /\ result' = [result EXCEPT ![t] = "ok"]
  /\ UNCHANGED <<next_order_id, clock, price, txlocals>>

\* t is blocked in its locking read on a row whose lock u holds
WaitsFor(t, u) ==
  /\ t # u /\ pc[t] = "select"
  /\ Item(t).product_id \in Products
  /\ lock_owner[Item(t).product_id] = u

\* t and another request each wait for a row lock the other holds
CyclicWait(t) == \E u \in Tx : WaitsFor(t, u) /\ WaitsFor(u, t)

\* The server ends a cyclic lock wait: the locking read of one of the requests
\* returns error 1213 (deadlock found) or, at the latest, 1205 (lock wait
\* timeout), a mysql.connector.Error: except Error: db.rollback()
DeadlockVictim(t) ==
  /\ CyclicWait(t)
  /\ Raise(t, "PersistenceFailure")
  /\ UNCHANGED <<next_order_id, clock, price, txlocals>>

\* A statement raises mysql.connector.Error (lost connection, lock wait
\* timeout, deadlock victim): except Error: db.rollback()
DbError(t) ==
  /\ pc[t] \in InProgress
  /\ Raise(t, "PersistenceFailure")
  /\ UNCHANGED <<next_order_id, clock, price, txlocals>>

\* The request is torn down by a BaseException no except clause catches:
\* only the finally blocks run, and get_db closes the connection.
Cancel(t) ==
  /\ pc[t] \in InProgress
  /\ DbClose(t)
  /\ pc' = [pc EXCEPT ![t] = "cancelled"]
  /\ result' = [result EXCEPT ![t] = "cancelled"]
  /\ UNCHANGED <<next_order_id, clock, price, txlocals>>

\* The wall clock reaches the next second.
Tick ==
  /\ clock < MaxClock
  /\ clock' = clock + 1
  /\ UNCHANGED <<committed, next_order_id, lock_owner, price, pc, txlocals, tx_orders,
                 tx_items, tx_stock, result>>

\* Nothing in create_order but the order number depends on the clock or on the
\* random suffix, so Spec keeps both at 0; SpecNumbers lets them vary.
Next ==
  \/ \E t \in Tx : RejectInvalid(t)
  \/ \E t \in Tx : StartTransaction(t, 0)
  \/ \E t \in Tx : InsertOrder(t)
  \/ \E t \in Tx : SelectForUpdate(t)
  \/ \E t \in Tx : UpdateStock(t)
  \/ \E t \in Tx : InsertItem(t)
  \/ \E t \in Tx : UpdateTotal(t)
  \/ \E t \in Tx : Commit(t)
  \/ \E t \in Tx : DeadlockVictim(t)
  \/ \E t \in Tx : DbError(t)
  \/ \E t \in Tx : Cancel(t)

Spec == Init /\ [][Next]_vars

NextNumbers ==
  \/ Next
  \/ \E t \in Tx, rnd \in 1..(NumSuffix - 1) : StartTransaction(t, rnd)
  \/ Tick

SpecNumbers == Init /\ [][NextNumbers]_vars

\* ---- update_order_status and price changes ---------------------------------
\* The status values the endpoint's path pattern admits.
Statuses == {"pending", "processing", "shipped", "delivered", "cancelled"}

\* The statuses and the prices the administrative calls are tried with.
StatusInputs == {"shipped", "cancelled"}
NewPrice == [p \in Products |-> Price[p] + 100]
PricedProducts == {1}
OrderIds == 1..(Cardinality(Tx) + 1)

SetStatusResetsTotal(o, new_status) ==
  [o EXCEPT !.status = new_status, !.total_amount = 0]

\* UPDATE orders SET status = %s, updated_at = NOW() WHERE id = %s
SetStatus(o, new_status) == [o EXCEPT !.status = new_status]

\* update_order_status on a connection of its own (autocommit off, one UPDATE,
\* one commit).  The UPDATE waits for a row that a create_order transaction
\* has inserted and not yet committed; for an id with no row rowcount is 0,
\* the call answers 404 and the store is left as it was.
UpdateOrderStatus(id, new_status) ==
  /\ new_status \in Statuses
  /\ \A t \in Tx : \A o \in tx_orders[t] : o.id # id
  /\ orders' = {IF o.id = id THEN SetStatus(o, new_status) ELSE o : o \in orders}
  /\ UNCHANGED <<stock, order_items, next_order_id, lock_owner, clock, price, pc,
                 txlocals, tx_orders, tx_items, tx_stock, result>>

\* A change of products.price made outside this service; as an UPDATE of the
\* product row it waits while a create_order transaction holds the row's lock.
ChangePrice(p) ==
  /\ lock_owner[p] = NoTx
  /\ price' = [price EXCEPT ![p] = IF @ = Price[p] THEN NewPrice[p] ELSE Price[p]]
  /\ UNCHANGED <<committed, next_order_id, lock_owner, clock, pc, txlocals,
                 tx_orders, tx_items, tx_stock, result>>

NextAdmin ==
  \/ Next
  \/ \E id \in OrderIds, new_status \in StatusInputs :
       UpdateOrderStatus(id, new_status)
  \/ \E p \in PricedProducts : ChangePrice(p)

SpecAdmin == Init /\ [][NextAdmin]_vars

\* ---- fair scheduling ---------------------------------------------------------
\* The next statement of request t.  The handler body has no await and its
\* worker keeps running, so a statement that can run does run, and the server
\* does not leave a cyclic lock wait standing; nothing promises that any other
\* database error or a teardown ever happens.
Step(t) ==
  \/ InsertOrder(t)
  \/ SelectForUpdate(t)
  \/ UpdateStock(t)
  \/ InsertItem(t)
  \/ UpdateTotal(t)
  \/ Commit(t)

SpecFair ==
  Spec /\ \A t \in Tx : WF_vars(Step(t)) /\ WF_vars(DeadlockVictim(t))

\* ---- read-only endpoints: each runs on its own connection and sees the
\* committed tables only -----------------------------------------------------

RECURSIVE SumTotals(_)
SumTotals(rows) ==
  IF rows = {} THEN 0
  ELSE LET o == CHOOSE r \in rows : TRUE
       IN o.total_amount + SumTotals(rows \ {o})

\* SELECT id, user_id, number, status, total_amount, created_at FROM orders
GetOrders == orders

\* SELECT COUNT(*), COALESCE(SUM(total_amount), 0) FROM orders
GetOrderStats ==
  [total_orders |-> Cardinality(orders), total_amount |-> SumTotals(orders)]

\* ---- auxiliary definitions of the properties -----------------------------

RECURSIVE SumSubtotals(_)
SumSubtotals(rows) ==
  IF rows = <<>> THEN 0 ELSE Head(rows).subtotal + SumSubtotals(Tail(rows))

RECURSIVE SumQuantity(_, _)
SumQuantity(rows, p) ==
  IF rows = <<>> THEN 0
  ELSE (IF Head(rows).product_id = p THEN Head(rows).quantity ELSE 0)
       + SumQuantity(Tail(rows), p)

ItemsOf(oid) == SelectSeq(order_items, LAMBDA r : r.order_id = oid)

\* the committed store holds no row written by request t
NothingCommittedOf(t) ==
  order_id[t] # 0 =>
    /\ \A o \in orders : o.id # order_id[t]
    /\ ItemsOf(order_id[t]) = <<>>

\* committed stock is the initial stock less the committed order lines
StockAccounted ==
  \A p \in Products : InitStock[p] = stock[p] + SumQuantity(order_items, p)

HoldsNothing(t) ==
  /\ \A p \in Products : lock_owner[p] # t
  /\ tx_orders[t] = {} /\ tx_items[t] = <<>> /\ tx_stock[t] = <<>>

TypeOK ==
  /\ stock \in [Products -> Int]
  /\ pc \in [Tx -> {"idle"} \cup InProgress \cup Ended]
  /\ lock_owner \in [Products -> Tx \cup {NoTx}]

\* ---- C1 ------------------------------------------------------------------
\* C1: in every reachable state every product's stock is >= 0, in the
\* committed table and in every transaction's uncommitted view.
C1_StockNeverNegative ==
  /\ \A p \in Products : stock[p] >= 0
  /\ \A t \in Tx : \A p \in Products : TxView(t, p) >= 0

\* one request has committed and another holds an uncommitted decrement that
\* takes the same product to 0
C1_Witness ==
  \E t, u \in Tx : \E p \in Products :
    /\ t # u /\ result[t] = "ok" /\ pc[u] \in InProgress
    /\ stock[p] > 0 /\ stock[p] < InitStock[p]
    /\ p \in DOMAIN tx_stock[u] /\ tx_stock[u][p] = 0

\* ---- C2 ------------------------------------------------------------------
\* C2: the step in which a create_order call fails (any kind, at any line)
\* leaves products.stock, orders and order_items as they were, and nothing
\* the call wrote (order row, lines, decrements of earlier lines) is in them.
C2_FailedCallLeavesStore ==
  [][\A t \in Tx :
       (pc[t] # "failed" /\ pc'[t] = "failed") =>
         /\ stock' = stock /\ orders' = orders /\ order_items' = order_items
         /\ NothingCommittedOf(t)' /\ StockAccounted'
         /\ tx_orders'[t] = {} /\ tx_items'[t] = <<>> /\ tx_stock'[t] = <<>>]_vars

\* a request failed on its second line after the order row, the first line
\* and the first decrement were written
C2_Witness ==
  \E t \in Tx :
    /\ pc[t] = "failed" /\ idx[t] = 2 /\ order_id[t] # 0
    /\ result[t] \in {"InsufficientStock", "ProductNotFound", "ProductUnavailable"}

\* ---- C3 ------------------------------------------------------------------
\* C3: every committed order's total_amount is the sum of the subtotals of
\* its order_items rows, and each row's subtotal is unit_price * quantity.
C3_TotalIsSumOfSubtotals ==
  /\ \A o \in orders : o.total_amount = SumSubtotals(ItemsOf(o.id))
  /\ \A i \in 1..Len(order_items) :
       order_items[i].subtotal = order_items[i].unit_price * order_items[i].quantity

\* an order of two lines for products of different price is committed
C3_Witness ==
  \E o \in orders :
    /\ Len(ItemsOf(o.id)) = 2
    /\ ItemsOf(o.id)[1].unit_price # ItemsOf(o.id)[2].unit_price
    /\ o.total_amount > 0

\* ---- C4 ------------------------------------------------------------------
\* C4: a commit lowers each product's stock by exactly the quantities of the
\* lines it commits for that product and leaves the others alone; so always
\* initial stock = committed stock + quantities of all committed lines.
C4_StockConservation ==
  [][/\ \A t \in Tx :
        (pc[t] # "done" /\ pc'[t] = "done") =>
          \A p \in Products :
            stock'[p] = stock[p] - SumQuantity(tx_items[t], p)
     /\ StockAccounted']_vars

\* two committed orders have taken the whole stock of one product
C4_Witness ==
  \E p \in Products :
    /\ \A t \in Tx : pc[t] = "done"
    /\ stock[p] = 0 /\ InitStock[p] > 1
    /\ Cardinality({order_items[i].order_id : i \in 1..Len(order_items)}) = 2

\* ---- C5 ------------------------------------------------------------------
Business == {"ok", "ProductNotFound", "ProductUnavailable", "InsufficientStock",
             "ConcurrentStockConflict"}

\* t and u are the two placements of the scenario: both have ended without a
\* storage fault, each had the single line (p, quantity), and no other
\* placement has taken stock of p
TwoCallsFor(t, u, p) ==
  /\ t # u
  /\ pc[t] \in {"done", "failed"} /\ pc[u] \in {"done", "failed"}
  /\ result[t] \in Business /\ result[u] \in Business
  /\ Len(req[t].items) = 1 /\ req[t].items[1].product_id = p
  /\ Len(req[u].items) = 1 /\ req[u].items[1].product_id = p
  /\ ~IsDeleted[p]
  /\ \A w \in Tx \ {t, u} : \A i \in 1..Len(order_items) :
       order_items[i].order_id = order_id[w] => order_items[i].product_id # p

Qty(t) == req[t].items[1].quantity

Shortage == {"InsufficientStock", "ConcurrentStockConflict"}

ExactlyOneSucceeds(t, u) ==
  \/ result[t] = "ok" /\ result[u] \in Shortage
  \/ result[u] = "ok" /\ result[t] \in Shortage

\* C5 as claimed: stock < qty1 + qty2 alone gives exactly one success.
C5_Original ==
  \A t, u \in Tx : \A p \in Products :
    (TwoCallsFor(t, u, p) /\ InitStock[p] < Qty(t) + Qty(u)) =>
      (ExactlyOneSucceeds(t, u) /\ stock[p] >= 0)

\* C5, amended: two placements of one line each for the same available
\* product with stock < qty1 + qty2 end, when at least one quantity is <= stock,
\* in exactly one success and one insufficient-stock (or zero-row conflict)
\* failure; when both quantities exceed the stock, both fail with insufficient
\* stock; the final stock is never negative.
C5_OneSuccessWhenOneFits ==
  \A t, u \in Tx : \A p \in Products :
    (TwoCallsFor(t, u, p) /\ InitStock[p] < Qty(t) + Qty(u)) =>
      /\ stock[p] >= 0
      /\ (Qty(t) <= InitStock[p] \/ Qty(u) <= InitStock[p]) => ExactlyOneSucceeds(t, u)
      /\ (Qty(t) > InitStock[p] /\ Qty(u) > InitStock[p]) =>
           (result[t] = "InsufficientStock" /\ result[u] = "InsufficientStock")

\* both quantities fit alone but not together; one placement committed, the
\* other was refused
C5_Witness ==
  \E t, u \in Tx : \E p \in Products :
    /\ TwoCallsFor(t, u, p) /\ InitStock[p] < Qty(t) + Qty(u)
    /\ Qty(t) <= InitStock[p] /\ Qty(u) <= InitStock[p]
    /\ result[t] = "ok" /\ result[u] = "InsufficientStock"
    /\ stock[p] = InitStock[p] - Qty(t)

\* ---- C6 ------------------------------------------------------------------
\* C6: no reachable state holds a cyclic lock wait between two placements
\* (locks are taken in one order common to all callers).
C6_NoCyclicLockWait ==
  ~ \E t, u \in Tx : WaitsFor(t, u) /\ WaitsFor(u, t)

\* ---- C7 ------------------------------------------------------------------
\* C7: a request cancelled, or failed by a storage error such as a lock wait
\* timeout, before commit has nothing in the committed store (no order row,
\* no line, no decrement), has no pending writes and holds no row lock.
C7_CancelledIsRolledBack ==
  \A t \in Tx :
    (pc[t] = "cancelled" \/ (pc[t] = "failed" /\ result[t] = "PersistenceFailure")) =>
      (NothingCommittedOf(t) /\ StockAccounted /\ HoldsNothing(t))

\* a request was cancelled after it had locked and decremented a product, and
\* another request then locked the same product and committed
C7_Witness ==
  \E t, u \in Tx :
    /\ pc[t] = "cancelled" /\ pc[u] = "done"
    /\ Len(reads[t]) = 2 /\ \E i \in 1..Len(order_items) :
         order_items[i].product_id = reads[t][1]

\* ---- C8 ------------------------------------------------------------------
\* C8: while a placement is in progress nothing it wrote is visible to another
\* connection: the listing has no row of it, there is no line of it, every
\* listed order carries its final total and all its lines, the statistics sum
\* only such totals, and committed stock reflects all or none of an order's
\* decrements.
C8_NoPartialOrderVisible ==
  /\ \A t \in Tx : pc[t] \in InProgress => NothingCommittedOf(t)
  /\ \A o \in GetOrders :
       /\ ItemsOf(o.id) # <<>>
       /\ o.total_amount = SumSubtotals(ItemsOf(o.id))
       /\ \E t \in Tx : pc[t] = "done" /\ order_id[t] = o.id
                        /\ Len(ItemsOf(o.id)) = Len(req[t].items)
  /\ GetOrderStats.total_amount = SumSubtotals(order_items)
  /\ \A i \in 1..Len(order_items) : \E o \in GetOrders : o.id = order_items[i].order_id
  /\ StockAccounted

\* one placement has written its order row, a line and a decrement and is on
\* its second line while the other reads the committed, untouched stock of
\* another product and nothing is listed
C8_Witness ==
  \E t, u \in Tx :
    /\ t # u /\ pc[t] = "insert_item" /\ idx[t] = 2 /\ tx_stock[t] # <<>>
    /\ pc[u] = "update" /\ local[u].product_stock = InitStock[Item(u).product_id]
    /\ GetOrders = {} /\ GetOrderStats.total_orders = 0

\* ---- C9 ------------------------------------------------------------------
\* C9: no two persisted orders carry the same order number.
C9_OrderNumbersUnique ==
  \A o1, o2 \in orders : o1.id # o2.id => o1.number # o2.number

\* ---- C10 -----------------------------------------------------------------
Refusals == {"ProductNotFound", "ProductUnavailable", "InsufficientStock"}

Passes(line) == line.product_id \in Products /\ ~IsDeleted[line.product_id]

\* C10: a refusal names the first line, in request order, that cannot be
\* satisfied, by the first of: no row -> ProductNotFound; soft-deleted ->
\* ProductUnavailable; locked stock < quantity -> InsufficientStock; every
\* earlier line passed, and no line after it was read or stays locked.
C10_FirstFailingLineAndCheckOrder ==
  \A t \in Tx :
    /\ \A j \in 1..(idx[t] - 1) : Passes(req[t].items[j])
    /\ pc[t] \in {"update", "insert_item", "update_total", "commit", "done"} =>
         (Passes(Item(t)) /\ local[t].product_stock >= Item(t).quantity)
    /\ (pc[t] = "failed" /\ result[t] \in Refusals) =>
         LET p == Item(t).product_id IN
         /\ result[t] = "ProductNotFound" <=> p \notin Products
         /\ result[t] = "ProductUnavailable" <=> (p \in Products /\ IsDeleted[p])
         /\ result[t] = "InsufficientStock" <=>
              (Passes(Item(t)) /\ local[t].product_stock < Item(t).quantity)
         /\ reads[t] = [j \in 1..idx[t] |-> req[t].items[j].product_id]
         /\ Len(req[t].items) = idx[t]
         /\ \A r \in Products : lock_owner[r] # t

\* the second line asks a soft-deleted product for more than its stock and is
\* refused as unavailable
C10_Witness ==
  \E t \in Tx :
    /\ pc[t] = "failed" /\ result[t] = "ProductUnavailable" /\ idx[t] = 2
    /\ local[t].product_stock < Item(t).quantity

\* ---- C11 -----------------------------------------------------------------
Positive(r) ==
  /\ r.user_id > 0
  /\ \A i \in 1..Len(r.items) : r.items[i].product_id > 0 /\ r.items[i].quantity > 0

\* C11: a request with a non-positive buyer id, product id or quantity, or
\* with no line, never gets a transaction: it is rejected as invalid input
\* with no order id drawn, no lock, no pending or committed write; and the
\* step that rejects it changes nothing in the store.
C11_InvalidInputRejectedBeforeTransaction ==
  /\ [](\A t \in Tx :
         /\ pc[t] \in InProgress \cup {"done", "failed", "cancelled"} =>
              (Positive(req[t]) /\ (pc[t] = "done" => req[t].items # <<>>))
         /\ pc[t] = "rejected" =>
              /\ ~Positive(req[t]) \/ req[t].items = <<>>
              /\ result[t] = "InvalidInput"
              /\ order_id[t] = 0 /\ reads[t] = <<>>
              /\ HoldsNothing(t) /\ NothingCommittedOf(t))
  /\ [][\A t \in Tx :
         (pc[t] = "idle" /\ pc'[t] = "rejected") =>
           UNCHANGED <<committed, next_order_id, lock_owner, tx_orders, tx_items,
                       tx_stock>>]_vars

\* a request with a zero quantity on its second line was rejected while another
\* placement held a row lock and uncommitted writes
C11_Witness ==
  \E t, u \in Tx :
    /\ pc[t] = "rejected" /\ req[t].user_id > 0 /\ Len(req[t].items) = 2
    /\ req[t].items[1].quantity > 0 /\ req[t].items[2].quantity = 0
    /\ pc[u] = "insert_item" /\ \E p \in Products : lock_owner[p] = u

\* ---- C12 -----------------------------------------------------------------
\* C12: from a placement's locking read of a product until it commits or
\* rolls back, it owns the row lock, no other placement reads or decrements
\* that product and the committed stock does not move; the value a placement
\* has read is the committed stock (as left by the commits before it) less its
\* own earlier lines, so no two placements in progress have passed the stock
\* check on the same value.
C12_RowLockSerializesStock ==
  /\ [](\A t \in Tx :
         /\ pc[t] \in InProgress =>
              \A i \in 1..Len(reads[t]) :
                LET p == reads[t][i] IN
                /\ lock_owner[p] = t
                /\ \A u \in Tx \ {t} :
                     /\ p \notin DOMAIN tx_stock[u]
                     /\ pc[u] \in InProgress => \A j \in 1..Len(reads[u]) : reads[u][j] # p
         /\ pc[t] = "update" =>
              /\ local[t].product_stock =
                   stock[Item(t).product_id] - SumQuantity(tx_items[t], Item(t).product_id)
              /\ StockAccounted)
  /\ [][\A t \in Tx : \A p \in Products :
         (lock_owner[p] = t /\ pc'[t] \in InProgress) =>
           /\ lock_owner'[p] = t /\ stock'[p] = stock[p]
           /\ \A u \in Tx \ {t} : reads'[u] = reads[u] \/ reads'[u][Len(reads'[u])] # p]_vars

\* one placement has committed a decrement of a product; the other, which
\* asked for the same product, then read the lowered stock under its own lock
C12_Witness ==
  \E t, u \in Tx :
    /\ t # u /\ pc[t] = "done" /\ pc[u] = "update"
    /\ \E i \in 1..Len(order_items) :
         /\ order_items[i].order_id = order_id[t]
         /\ order_items[i].product_id = Item(u).product_id
    /\ local[u].product_stock = stock[Item(u).product_id]
    /\ local[u].product_stock < InitStock[Item(u).product_id]
    /\ lock_owner[Item(u).product_id] = u

\* ---- C13 -----------------------------------------------------------------
\* C13: the conditional update never affects zero rows: whenever a placement
\* is about to run it, the stock it sees still covers the quantity, and no
\* placement ever ends in ConcurrentStockConflict.
C13_ConflictBranchUnreachable ==
  \A t \in Tx :
    /\ result[t] # "ConcurrentStockConflict"
    /\ pc[t] = "update" =>
         /\ TxView(t, Item(t).product_id) = local[t].product_stock
         /\ UpdateProducts(TxView(t, Item(t).product_id), Item(t).quantity).rowcount = 1

\* one placement ran its conditional update with success while the other was
\* blocked on the same product, both quantities together exceeding the stock
C13_Witness ==
  \E t, u \in Tx :
    /\ pc[t] = "insert_item" /\ WaitsFor(u, t)
    /\ Item(u).product_id = Item(t).product_id
    /\ Item(t).quantity + Item(u).quantity > stock[Item(t).product_id]
    /\ tx_stock[t][Item(t).product_id] = stock[Item(t).product_id] - Item(t).quantity

\* ---- C14 -----------------------------------------------------------------
OrderCommittedOf(t) ==
  order_id[t] # 0 /\ \E o \in orders : o.id = order_id[t] /\ o.number = order_number[t]

\* C14: success is reported exactly when the order is committed: a request
\* that returned its order id and number has its order row and lines in the
\* committed store, a request that reported a failure has nothing there, and
\* an order is never committed before its request has returned success.
C14_SuccessIffCommitted ==
  \A t \in Tx :
    /\ result[t] = "ok" =>
         (pc[t] = "done" /\ OrderCommittedOf(t) /\ ItemsOf(order_id[t]) # <<>>
          /\ HoldsNothing(t))
    /\ result[t] \notin {"none", "ok"} =>
         (pc[t] \in {"failed", "cancelled", "rejected"} /\ NothingCommittedOf(t))
    /\ result[t] = "none" => (pc[t] \in {"idle"} \cup InProgress /\ NothingCommittedOf(t))
    /\ OrderCommittedOf(t) => result[t] = "ok"

\* one request returned success and its order is committed; the other failed
\* on its second line and left nothing
C14_Witness ==
  \E t, u \in Tx :
    /\ result[t] = "ok" /\ OrderCommittedOf(t)
    /\ result[u] = "InsufficientStock" /\ idx[u] = 2 /\ order_id[u] # 0
    /\ \A o \in orders : o.id # order_id[u]

\* ---- C15 -----------------------------------------------------------------
PriceReadUnderLock(t) ==
  pc[t] \in {"update", "insert_item"} =>
    /\ lock_owner[Item(t).product_id] = t
    /\ local[t].unit_price = price[Item(t).product_id]

LineStoresPriceRead(t) ==
  (pc[t] = "insert_item" /\ Len(tx_items'[t]) = Len(tx_items[t]) + 1) =>
    LET row == tx_items'[t][Len(tx_items'[t])]
    IN  /\ row.unit_price = price[row.product_id]
        /\ row.subtotal = row.unit_price * row.quantity

CommittedOrdersKept ==
  /\ Len(order_items') >= Len(order_items)
  /\ \A i \in 1..Len(order_items) : order_items'[i] = order_items[i]
  /\ \A o \in orders : \E n \in orders' :
       /\ n.id = o.id /\ n.user_id = o.user_id /\ n.number = o.number
       /\ n.total_amount = o.total_amount

\* C15: the unit price an order line stores is the product's price as read
\* under the row lock, and a committed order keeps its lines (product,
\* quantity, unit price, subtotal) and its total through every later step:
\* price changes, other placements and update_order_status, which changes
\* the status only.
C15_PriceSnapshotAndCommittedOrderImmutable ==
  /\ [](\A t \in Tx : PriceReadUnderLock(t))
  /\ [][(\A t \in Tx : LineStoresPriceRead(t)) /\ CommittedOrdersKept]_vars

\* a committed order whose status was changed and whose product has a new
\* price still carries the old unit price and the total of its lines, next to
\* a second committed order placed at the new price
C15_Witness ==
  \E o, n \in orders :
    /\ o.status = "cancelled" /\ n.id # o.id
    /\ o.total_amount = SumSubtotals(ItemsOf(o.id)) /\ o.total_amount > 0
    /\ \E i, j \in 1..Len(order_items) :
         /\ order_items[i].order_id = o.id /\ order_items[j].order_id = n.id
         /\ order_items[i].product_id = order_items[j].product_id
         /\ order_items[i].unit_price # order_items[j].unit_price
         /\ order_items[j].unit_price = price[order_items[j].product_id]

\* ---- C16 -----------------------------------------------------------------
\* C16: under fair scheduling every create_order call that has started
\* eventually ends in a commit or a rollback: a call that has ended holds no
\* row lock, so a request blocked on the lock resumes, and no placement waits
\* forever for a row lock, whatever products the concurrent requests share.
C16_EveryCallEnds ==
  /\ [](\A t \in Tx : pc[t] \in Ended => \A p \in Products : lock_owner[p] # t)
  /\ \A t \in Tx : (pc[t] \in InProgress) ~> (pc[t] \in Ended)

\* two requests took products 1 and 2 in opposite orders: one was failed by
\* the server on its second locking read and rolled back, the other, which
\* was waiting for the row the first held, went on and committed both lines
C16_Witness ==
  \E t, u \in Tx :
    /\ pc[t] = "failed" /\ result[t] = "PersistenceFailure"
    /\ reads[t] = <<1>> /\ idx[t] = 2 /\ req[t].items[2].product_id = 2
    /\ pc[u] = "done" /\ reads[u] = <<2, 1>>
    /\ Len(ItemsOf(order_id[u])) = 2 /\ NothingCommittedOf(t)

\* ---- C17 -----------------------------------------------------------------
\* the committed rows of a successful request: one order row, pending and
\* owned by the buyer, and one line per request line, in request order
CommittedAsRequested(t) ==
  LET mine == {o \in orders : o.id = order_id[t] \/ o.user_id = req[t].user_id}
      rows == ItemsOf(order_id[t])
  IN  /\ Cardinality(mine) = 1
      /\ \A o \in mine :
           /\ o.id = order_id[t] /\ o.user_id = req[t].user_id
           /\ o.user_id = UserOf[t] /\ o.status = "pending"
      /\ Len(rows) = Len(req[t].items)
      /\ \A i \in 1..Len(rows) :
           /\ rows[i].product_id = req[t].items[i].product_id
           /\ rows[i].quantity = req[t].items[i].quantity

\* the order row of a request in flight: total 0 up to the final UPDATE, the
\* accumulated total after it
PendingTotal(t) ==
  /\ pc[t] \in {"select", "update", "insert_item", "update_total"} =>
       (tx_orders[t] # {} /\ \A o \in tx_orders[t] : o.total_amount = 0)
  /\ pc[t] = "commit" =>
       (tx_orders[t] # {} /\ \A o \in tx_orders[t] : o.total_amount = total_amount[t])

\* C17: a successful create_order with n lines has committed exactly one
\* order row, in status 'pending' and owned by the requesting buyer, and
\* exactly n order lines of that order, the i-th with the product and the
\* quantity of the i-th request line; every committed line belongs to a
\* committed order, and the order row's total is 0 from its INSERT until the
\* final UPDATE of the total in the same transaction.
C17_OneOrderRowAndOneLinePerRequestLine ==
  /\ \A t \in Tx : (pc[t] = "done" => CommittedAsRequested(t)) /\ PendingTotal(t)
  /\ \A i \in 1..Len(order_items) :
       \E t \in Tx : pc[t] = "done" /\ order_items[i].order_id = order_id[t]
  /\ Cardinality(orders) = Cardinality({t \in Tx : pc[t] = "done"})

\* both requests succeeded with two lines each, one of them with two lines
\* for the same product
C17_Witness ==
  /\ \A t \in Tx : pc[t] = "done" /\ Len(req[t].items) = 2 /\ CommittedAsRequested(t)
  /\ Len(order_items) = 4 /\ Cardinality(orders) = 2
  /\ \E t \in Tx : req[t].items[1].product_id = req[t].items[2].product_id

\* ---- C18 -----------------------------------------------------------------
\* what the earlier lines of request t have taken of product p
TakenBefore(t, p) == SumQuantity(tx_items[t], p)

\* the locked read of the current line returned the stock as it was when t
\* first locked the row (no other connection can change it since), less the
\* quantities of t's earlier lines for the product
ReadSeesOwnDecrements(t) ==
  pc[t] = "update" =>
    LET p == Item(t).product_id
    IN  /\ lock_owner[p] = t
        /\ local[t].product_stock = stock[p] - TakenBefore(t, p)
        /\ TakenBefore(t, p) + Item(t).quantity <= stock[p]

\* the locked read of a line refuses exactly when the quantities asked so far
\* for the product exceed its stock, and it then changes no stock
ShortExactlyWhenSumExceeds(t) ==
  (pc[t] = "select" /\ pc'[t] \in {"update", "failed"}
   /\ result'[t] \notin {"PersistenceFailure", "ProductNotFound", "ProductUnavailable"}) =>
    LET p == Item(t).product_id
    IN  /\ result'[t] = "InsufficientStock" <=>
             stock[p] < TakenBefore(t, p) + Item(t).quantity
        /\ result'[t] = "InsufficientStock" =>
             (stock' = stock /\ tx_stock'[t] = <<>> /\ pc'[t] = "failed")

\* the commit takes from every product the sum of the request's quantities
CommitTakesSum(t) ==
  (pc[t] = "commit" /\ pc'[t] = "done") =>
    \A p \in Products :
      /\ stock'[p] = stock[p] - SumQuantity(tx_items[t], p)
      /\ SumQuantity(tx_items[t], p) = SumQuantity(
           [i \in 1..Len(req[t].items) |->
              [product_id |-> req[t].items[i].product_id,
               quantity |-> req[t].items[i].quantity]], p)
      /\ stock'[p] >= 0

\* C18: with several lines for one product in a request, each later locked
\* read sees the stock less the earlier lines of the same transaction; the
\* request gets past the product exactly when the sum of its quantities is
\* <= the stock at the first lock, the commit then takes that sum, and a
\* request whose sum exceeds the stock fails with InsufficientStock and
\* takes nothing.
C18_DuplicateLinesSeeOwnDecrements ==
  /\ [](\A t \in Tx : ReadSeesOwnDecrements(t))
  /\ [][\A t \in Tx : ShortExactlyWhenSumExceeds(t) /\ CommitTakesSum(t)]_vars

\* one request took all three units of product 1 in two lines (1 then 2) and
\* succeeded; the other asked 2 and 2 of it and was refused on its second line
C18_Witness ==
  \E t, u \in Tx :
    /\ pc[t] = "done"
    /\ req[t].items = <<[product_id |-> 1, quantity |-> 1], [product_id |-> 1, quantity |-> 2]>>
    /\ stock[1] = InitStock[1] - 3
    /\ result[u] = "InsufficientStock" /\ idx[u] = 2
    /\ req[u].items = <<[product_id |-> 1, quantity |-> 2], [product_id |-> 1, quantity |-> 2]>>
    /\ local[u].product_stock = InitStock[1] - 2

====
